---- MODULE Spec2Model ----
(***************************************************************************)
(* Model of audioteka-dl.py: the AudiotekaClient class (login, shelf,      *)
(* _download_asset, download_audiobook) and main.                          *)
(*                                                                         *)
(* Two specifications are given.  Spec is the program as run from the      *)
(* command line: main() executed any number of times against the same      *)
(* destination directory, each run possibly interrupted.  SpecClient is    *)
(* the class used as a library: any sequence of login and                  *)
(* download_audiobook calls on one client object.                          *)
(*                                                                         *)
(* The remote site is the environment: every response (status, body) is a   *)
(* nondeterministic input of the action that issues the request.            *)
(***************************************************************************)
EXTENDS Integers, Sequences, FiniteSets, TLC

VARIABLES
    caller,            \* "main" (script run) or "client" (class used directly)
    pc,                \* position in main / in the current client call
    is_authenticated,  \* AudiotekaClient.is_authenticated
    marker,            \* did the last post-login response body hold b"shelf-item"
    shelf,             \* the list returned by audioteka.shelf
    idx,               \* number of audiobooks of shelf whose download was started
    cur,               \* audiobook.id, the argument of download_audiobook
    link,              \* download_link of the current download_audiobook call
    token,             \* token extracted from download_link.query
    asset,             \* which of the three _download_asset calls is running
    fs,                \* content of dest_dir/<id>/<id>.<ext>
    dirs,              \* the ids whose subdirectory dest_dir/<id> exists
    requests,          \* requests issued by the current (or last) client call
    issued,            \* kinds of request issued since the client was created
    outcome,           \* how the last client call ended
    exit,              \* what main returned
    fs0,               \* fs when the current download_audiobook call started
    dirs0,             \* dirs when the current download_audiobook call started
    calls              \* number of calls made on the client used directly

vars == <<caller, pc, is_authenticated, marker, shelf, idx, cur, link, token,
          asset, fs, dirs, requests, issued, outcome, exit, fs0, dirs0, calls>>

----------------------------------------------------------------------------
(* Bounds *)

\* number of 1024-byte chunks in the body of an asset response
NChunks == 1

\* largest number of parameters in the query string of a download link
MaxParams == 2

\* largest number of calls made on a client that is used directly
MaxCalls == 3

\* audiobook ids that may appear on the shelf page, in page order
IdOrder == <<"123", "456">>

Ids == {IdOrder[i] : i \in 1..Len(IdOrder)}

\* parameter values seen in a download link; "" is a blank value (token=)
Values == {"", "abc", "xyz"}

----------------------------------------------------------------------------
(* Data *)

\* the three assets in the order download_audiobook fetches them
Exts == <<"jpg", "cue", "mp3">>

ExtSet == {Exts[i] : i \in 1..Len(Exts)}

Files == Ids \X ExtSet

Absent == [kind |-> "absent", n |-> 0]

\* a file holding n chunks; a file just opened by _download_asset holds 0
Written(n) == [kind |-> "file", n |-> n]

\* what a file of the destination directory may hold before the first run
Contents == {Absent} \cup {Written(n) : n \in 0..NChunks}

Complete == Written(NChunks)

\* urlparse(href) keeps the path (as its segments) and the query (as the
\* values of its parameters, in order; the names are never looked at)
NoLink == [path |-> <<>>, query |-> <<>>]

FullPath == <<"pl", "audiobook", "download">>

SamplePath == <<"pl", "audiobook", "download-sample">>

RECURSIVE SeqsUpTo(_, _)
SeqsUpTo(S, n) ==
    IF n = 0 THEN {<<>>}
    ELSE LET shorter == SeqsUpTo(S, n - 1)
         IN  shorter \cup {Append(q, v) : q \in {r \in shorter : Len(r) = n - 1}, v \in S}

Queries == SeqsUpTo(Values, MaxParams)

\* hrefs of the "Pobierz" anchor: a full download with any query, or a
\* sample with no query or with one token
Links ==
    [path : {FullPath}, query : Queries]
        \cup [path : {SamplePath}, query : {q \in Queries : Len(q) <= 1 /\ q # <<"">>}]

\* shelf pages: any of the audiobooks, ids unique on a page
ShelfListings == {SelectSeq(IdOrder, LAMBDA a : a \in S) : S \in SUBSET Ids}

Request(kind, id, ext, tok, ok) ==
    [kind |-> kind, id |-> id, ext |-> ext, token |-> tok, ok |-> ok]

----------------------------------------------------------------------------
(* Pure functions *)

\* parse_qsl(query) with its defaults: parameters with a blank value are dropped
parse_qsl(query) == SelectSeq(query, LAMBDA v : v # "")

\* download_link.path.endswith("/download-sample")
IsSample(l) == Len(l.path) > 0 /\ l.path[Len(l.path)] = "download-sample"

\* variants of dest_file.exists(): no check at all, an empty file counted as
\* missing, only a whole file counted as present
NeverExists(f) == FALSE

ExistsNonEmpty(f) == fs[f] # Absent /\ fs[f].n > 0

ExistsComplete(f) == fs[f] = Complete

\* dest_file.exists()
Exists(f) == fs[f] # Absent

\* variant: the audio URL carries ?token= as the other two do
AssetUrlTokenAll(ext, tok) == tok

\* the three URLs of download_audiobook: cover and cue carry ?token=, the
\* audio URL is built without a query string
AssetUrlToken(ext, tok) == IF ext = "mp3" THEN "" ELSE tok

CurFile == <<cur, Exts[asset]>>

----------------------------------------------------------------------------
(* Ends of a client call *)

\* an exception leaves the call; main does not catch it
Raise(e) ==
    /\ outcome' = e
    /\ IF caller = "main"
         THEN pc' = "exited" /\ exit' = "raised"
         ELSE pc' = "idle" /\ exit' = exit

\* download_audiobook returns to the loop of main or to the caller
ReturnFromDownload ==
    /\ outcome' = "returned"
    /\ pc' = IF caller = "main" THEN "loop" ELSE "idle"
    /\ exit' = exit

\* _download_asset returns: the next asset, or the end of download_audiobook
AssetReturns ==
    IF asset < Len(Exts)
    THEN /\ asset' = asset + 1
         /\ pc' = "asset_check"
         /\ UNCHANGED <<outcome, exit>>
    ELSE /\ asset' = asset
         /\ ReturnFromDownload

----------------------------------------------------------------------------
(* AudiotekaClient.login *)

login(next) ==
    \E form \in BOOLEAN, body_has_marker \in BOOLEAN :
        /\ issued' = issued \cup (IF form THEN {"login_get", "login_post"} ELSE {"login_get"})
        /\ UNCHANGED <<caller, shelf, idx, cur, link, token, asset, fs, dirs, fs0, dirs0>>
        /\ IF ~form
           THEN \* html.find("form") is None: form.find raises AttributeError
                /\ requests' = <<Request("login_get", "-", "-", "", TRUE)>>
                /\ UNCHANGED <<is_authenticated, marker>>
                /\ Raise("AttributeError")
           ELSE /\ requests' = <<Request("login_get", "-", "-", "", TRUE),
                                 Request("login_post", "-", "-", "", TRUE)>>
                /\ marker' = body_has_marker
                /\ is_authenticated' = IF body_has_marker THEN TRUE ELSE is_authenticated
                /\ outcome' = "returned"
                /\ pc' = next
                /\ exit' = exit

----------------------------------------------------------------------------
(* AudiotekaClient.download_audiobook and _download_asset *)

\* entry of download_audiobook(audiobook, dest_dir)
CallDownload(a) ==
    /\ cur' = a
    /\ link' = NoLink
    /\ token' = ""
    /\ asset' = 1
    /\ requests' = <<>>
    /\ outcome' = "running"
    /\ fs0' = fs
    /\ dirs0' = dirs
    /\ pc' = "da_detail"

\* GET of the detail page and the search for the "Pobierz" anchor; the
\* status of the response is not looked at
DetailPage ==
    /\ pc = "da_detail"
    /\ \E ok \in BOOLEAN, anchor \in BOOLEAN, l \in Links :
        /\ requests' = Append(requests, Request("detail", cur, "-", "", ok))
        /\ issued' = issued \cup {"detail"}
        /\ UNCHANGED <<caller, is_authenticated, marker, shelf, idx, cur, token,
                       asset, fs, dirs, fs0, dirs0, calls>>
        /\ IF anchor
           THEN /\ link' = l
                /\ pc' = "da_link"
                /\ UNCHANGED <<outcome, exit>>
           ELSE /\ link' = link
                /\ Raise("AttributeError")

\* variant: the subdirectory is made before the sample check
SkipSampleAfterMkdir ==
    /\ pc = "da_link"
    /\ IsSample(link)
    /\ dirs' = dirs \cup {cur}
    /\ ReturnFromDownload
    /\ UNCHANGED <<caller, is_authenticated, marker, shelf, idx, cur, link, token,
                   asset, fs, requests, issued, fs0, dirs0, calls>>

\* the link is a sample: notice and return
SkipSample ==
    /\ pc = "da_link"
    /\ IsSample(link)
    /\ ReturnFromDownload
    /\ UNCHANGED <<caller, is_authenticated, marker, shelf, idx, cur, link, token,
                   asset, fs, dirs, requests, issued, fs0, dirs0, calls>>

\* [(_, token)] = parse_qsl(download_link.query) does not unpack
BadQuery ==
    /\ pc = "da_link"
    /\ ~IsSample(link)
    /\ Len(parse_qsl(link.query)) # 1
    /\ Raise("ValueError")
    /\ UNCHANGED <<caller, is_authenticated, marker, shelf, idx, cur, link, token,
                   asset, fs, dirs, requests, issued, fs0, dirs0, calls>>

\* the token is unpacked and dest_dir/<id> is made
ExtractToken ==
    /\ pc = "da_link"
    /\ ~IsSample(link)
    /\ Len(parse_qsl(link.query)) = 1
    /\ token' = parse_qsl(link.query)[1]
    /\ dirs' = dirs \cup {cur}
    /\ asset' = 1
    /\ pc' = "asset_check"
    /\ UNCHANGED <<caller, is_authenticated, marker, shelf, idx, cur, link, fs,
                   requests, issued, outcome, exit, fs0, dirs0, calls>>

\* _download_asset: dest_file exists, skip
AssetSkip ==
    /\ pc = "asset_check"
    /\ Exists(CurFile)
    /\ AssetReturns
    /\ UNCHANGED <<caller, is_authenticated, marker, shelf, idx, cur, link, token,
                   fs, dirs, requests, issued, fs0, dirs0, calls>>

\* _download_asset: GET, raise_for_status, open(dest_file, "wb")
AssetGet ==
    /\ pc = "asset_check"
    /\ ~Exists(CurFile)
    /\ \E ok \in BOOLEAN :
        /\ requests' = Append(requests,
               Request("asset", cur, Exts[asset], AssetUrlToken(Exts[asset], token), ok))
        /\ issued' = issued \cup {"asset"}
        /\ UNCHANGED <<caller, is_authenticated, marker, shelf, idx, cur, link, token,
                       asset, dirs, fs0, dirs0, calls>>
        /\ IF ok
           THEN /\ fs' = [fs EXCEPT ![CurFile] = Written(0)]
                /\ pc' = "asset_write"
                /\ UNCHANGED <<outcome, exit>>
           ELSE /\ fs' = fs
                /\ Raise("HTTPError")

\* f.write(chunk) for the next chunk of resp.iter_content
WriteChunk ==
    /\ pc = "asset_write"
    /\ fs[CurFile].n < NChunks
    /\ fs' = [fs EXCEPT ![CurFile] = Written(fs[CurFile].n + 1)]
    /\ UNCHANGED <<caller, pc, is_authenticated, marker, shelf, idx, cur, link, token,
                   asset, dirs, requests, issued, outcome, exit, fs0, dirs0, calls>>

\* resp.iter_content raises in the middle of the body (connection lost)
WriteFail ==
    /\ pc = "asset_write"
    /\ fs[CurFile].n < NChunks
    /\ Raise("ConnectionError")
    /\ UNCHANGED <<caller, is_authenticated, marker, shelf, idx, cur, link, token,
                   asset, fs, dirs, requests, issued, fs0, dirs0, calls>>

\* the body is exhausted, the file is closed
AssetDone ==
    /\ pc = "asset_write"
    /\ fs[CurFile].n = NChunks
    /\ AssetReturns
    /\ UNCHANGED <<caller, is_authenticated, marker, shelf, idx, cur, link, token,
                   fs, dirs, requests, issued, fs0, dirs0, calls>>

download_audiobook ==
    \/ DetailPage
    \/ SkipSample
    \/ BadQuery
    \/ ExtractToken
    \/ AssetSkip
    \/ AssetGet
    \/ WriteChunk
    \/ WriteFail
    \/ AssetDone

----------------------------------------------------------------------------
(* main *)

\* main up to and including audioteka.login(...): a new client, then login
MainLogin ==
    /\ caller = "main"
    /\ pc = "start"
    /\ calls' = calls
    /\ login("auth_check")

\* variant: the result of login is not looked at
NeverNotAuthenticated == FALSE

\* if not audioteka.is_authenticated
NotAuthenticated == ~is_authenticated

\* "Provided credentials are not valid", return 1
MainAuthFail ==
    /\ pc = "auth_check"
    /\ NotAuthenticated
    /\ pc' = "exited"
    /\ exit' = "1"
    /\ UNCHANGED <<caller, is_authenticated, marker, shelf, idx, cur, link, token,
                   asset, fs, dirs, requests, issued, outcome, fs0, dirs0, calls>>

\* audioteka.shelf: GET of the shelf page and the parse of its items
MainShelf ==
    /\ pc = "auth_check"
    /\ ~NotAuthenticated
    /\ \E parses \in BOOLEAN, listing \in ShelfListings :
        /\ requests' = <<Request("shelf", "-", "-", "", TRUE)>>
        /\ issued' = issued \cup {"shelf"}
        /\ idx' = 0
        /\ UNCHANGED <<caller, is_authenticated, marker, cur, link, token, asset,
                       fs, dirs, fs0, dirs0, calls>>
        /\ IF parses
           THEN /\ shelf' = listing
                /\ outcome' = "returned"
                /\ pc' = "loop"
                /\ exit' = exit
           ELSE \* an item without the js-item-trunk8 anchor
                /\ shelf' = shelf
                /\ Raise("AttributeError")

\* for audiobook in audioteka.shelf: download_audiobook(audiobook, dest_dir)
MainNext ==
    /\ pc = "loop"
    /\ idx < Len(shelf)
    /\ idx' = idx + 1
    /\ CallDownload(shelf[idx + 1])
    /\ UNCHANGED <<caller, is_authenticated, marker, shelf, fs, dirs, issued, exit, calls>>

\* the loop is over: return 0
MainReturn ==
    /\ pc = "loop"
    /\ idx = Len(shelf)
    /\ pc' = "exited"
    /\ exit' = "0"
    /\ UNCHANGED <<caller, is_authenticated, marker, shelf, idx, cur, link, token,
                   asset, fs, dirs, requests, issued, outcome, fs0, dirs0, calls>>

\* what is left of a process that is gone: nothing but the files
Forget ==
    /\ is_authenticated' = FALSE
    /\ marker' = FALSE
    /\ shelf' = <<>>
    /\ idx' = 0
    /\ cur' = CHOOSE a \in Ids : TRUE
    /\ link' = NoLink
    /\ token' = ""
    /\ asset' = 1
    /\ requests' = <<>>
    /\ issued' = {}
    /\ outcome' = "none"

\* the process is interrupted (killed, power loss) wherever it is; the
\* files stay as they are
Kill ==
    /\ caller = "main"
    /\ pc # "exited"
    /\ pc' = "exited"
    /\ exit' = "killed"
    /\ Forget
    /\ UNCHANGED <<caller, fs, dirs, fs0, dirs0, calls>>

\* the script is started again on the same destination directory, with a
\* new client
Restart ==
    /\ caller = "main"
    /\ pc = "exited"
    /\ pc' = "start"
    /\ exit' = "running"
    /\ Forget
    /\ fs0' = fs
    /\ dirs0' = dirs
    /\ UNCHANGED <<caller, fs, dirs, calls>>

----------------------------------------------------------------------------
(* The class used directly *)

ClientLogin ==
    /\ caller = "client"
    /\ pc = "idle"
    /\ calls < MaxCalls
    /\ calls' = calls + 1
    /\ login("idle")

ClientDownload ==
    /\ caller = "client"
    /\ pc = "idle"
    /\ calls < MaxCalls
    /\ \E a \in Ids : CallDownload(a)
    /\ calls' = calls + 1
    /\ UNCHANGED <<caller, is_authenticated, marker, shelf, idx, fs, dirs, issued, exit>>

----------------------------------------------------------------------------
(* Specifications *)

InitCommon ==
    /\ is_authenticated = FALSE
    /\ marker = FALSE
    /\ shelf = <<>>
    /\ idx = 0
    /\ cur = CHOOSE a \in Ids : TRUE
    /\ link = NoLink
    /\ token = ""
    /\ asset = 1
    /\ requests = <<>>
    /\ issued = {}
    /\ outcome = "none"
    /\ exit = "running"
    /\ fs0 = fs
    /\ dirs0 = dirs
    /\ calls = 0

\* the script: the destination directory holds any files before the first
\* run, each in the subdirectory of its audiobook
Init ==
    /\ caller = "main"
    /\ pc = "start"
    /\ fs \in [Files -> Contents]
    /\ dirs \in SUBSET Ids
    /\ \A f \in Files : fs[f] # Absent => f[1] \in dirs
    /\ InitCommon

\* the class used directly, on an empty destination directory
InitClient ==
    /\ caller = "client"
    /\ pc = "idle"
    /\ fs = [f \in Files |-> Absent]
    /\ dirs = {}
    /\ InitCommon

Next ==
    \/ MainLogin
    \/ MainAuthFail
    \/ MainShelf
    \/ MainNext
    \/ MainReturn
    \/ download_audiobook
    \/ Kill
    \/ Restart

NextClient ==
    \/ ClientLogin
    \/ ClientDownload
    \/ download_audiobook

Spec == Init /\ [][Next]_vars

SpecClient == InitClient /\ [][NextClient]_vars

----------------------------------------------------------------------------
(* Properties *)

AssetRequests == SelectSeq(requests, LAMBDA r : r.kind = "asset")

InDownload == pc \in {"da_detail", "da_link", "asset_check", "asset_write"}

\* the last client call was download_audiobook and it is over
DownloadEnded == ~InDownload /\ Len(requests) > 0 /\ requests[1].kind = "detail"

\* number of asset requests for file f among rs
ReqsFor(rs, f) ==
    Cardinality({i \in DOMAIN rs :
        rs[i].kind = "asset" /\ rs[i].id = f[1] /\ rs[i].ext = f[2]})

AllPresentAtEntry == \A e \in ExtSet : fs0[<<cur, e>>] # Absent

Truncated(f) == fs[f] # Absent /\ fs[f].n < NChunks

BeingWritten(f) == pc = "asset_write" /\ f = CurFile

\* C1: during and after a download_audiobook call, every file that existed
\* when the call started has the content it had then, and no asset request
\* was issued for it.
C1_PreExistingUntouched ==
    (InDownload \/ DownloadEnded) =>
        \A f \in Files :
            fs0[f] # Absent => fs[f] = fs0[f] /\ ReqsFor(requests, f) = 0

\* C1 witness: a download_audiobook call went through its three assets and
\* returned, the cover was there before (as an empty file) and the audio
\* was not.
C1_Witness ==
    /\ DownloadEnded
    /\ outcome = "returned"
    /\ token # ""
    /\ fs0[<<cur, "jpg">>] = Written(0)
    /\ fs0[<<cur, "mp3">>] = Absent
    /\ fs[<<cur, "mp3">>] = Complete

\* C2 as stated: with the three files of A present when download_audiobook
\* starts, the call issues no request at all.
C2_Original ==
    (InDownload \/ DownloadEnded) /\ AllPresentAtEntry => requests = <<>>

\* C2 amended: with the three files of A present when download_audiobook
\* starts, the call issues the detail-page request and nothing else: no
\* asset request.
C2_NoAssetRequest ==
    (InDownload \/ DownloadEnded) /\ AllPresentAtEntry =>
        /\ AssetRequests = <<>>
        /\ Len(requests) <= 1
        /\ \A i \in DOMAIN requests : requests[i].kind = "detail"
        /\ pc # "da_detail" => Len(requests) = 1

\* C2 witness: such a call passed the three skips and returned.
C2_Witness ==
    /\ DownloadEnded
    /\ AllPresentAtEntry
    /\ outcome = "returned"
    /\ token # ""
    /\ \E e \in ExtSet : fs0[<<cur, e>>] = Written(0)

\* C3: an unauthenticated client issues no shelf, detail or asset request;
\* main returns 1 exactly when login returned and left the client
\* unauthenticated; main returns 0 only authenticated, after the shelf was
\* listed and every audiobook on it was processed, and a run whose loop
\* ended returns 0.
C3_AuthGate ==
    /\ ~is_authenticated => issued \cap {"shelf", "detail", "asset"} = {}
    /\ exit = "1" <=> (pc = "exited" /\ "login_post" \in issued /\ ~is_authenticated)
    /\ exit = "0" =>
          is_authenticated /\ "shelf" \in issued /\ idx = Len(shelf) /\ outcome = "returned"
    /\ (pc = "exited" /\ "shelf" \in issued /\ outcome = "returned") =>
          exit = "0" /\ idx = Len(shelf)

\* C3 witness: a run that ended with status 1 after a login without marker.
C3_Witness ==
    /\ exit = "1"
    /\ ~marker
    /\ Len(requests) = 2
    /\ requests[2].kind = "login_post"

\* C4 as stated: after login returns, is_authenticated tells whether the
\* post-login body of that call held the marker.
C4_Original ==
    (pc = "idle" /\ outcome = "returned" /\ Len(requests) = 2
        /\ requests[2].kind = "login_post") => is_authenticated = marker

\* C5: once the link of the detail page is a sample link, the files and the
\* subdirectories are those of the start of the call, no asset request is
\* issued, and the call returns normally: main goes on with its loop.
C5_SampleNoEffect ==
    link.path = SamplePath =>
        /\ fs = fs0
        /\ dirs = dirs0
        /\ requests = <<requests[1]>>
        /\ requests[1].kind = "detail"
        /\ \/ pc = "da_link"
           \/ pc \in {"loop", "idle"} /\ outcome = "returned" /\ exit = "running"
           \/ pc = "exited" /\ exit = "0" /\ outcome = "returned"

\* C5 witness: a sample was skipped, its subdirectory does not exist, and
\* another audiobook is still to come.
C5_Witness ==
    /\ link.path = SamplePath
    /\ pc = "loop"
    /\ cur \notin dirs
    /\ idx < Len(shelf)

\* C6 as stated: a full (non-sample) link whose query string holds no
\* parameter or more than one makes download_audiobook raise, with no
\* subdirectory made and no asset request issued.
C6_Original ==
    (link.path = FullPath /\ Len(link.query) # 1 /\ pc # "da_link") =>
        /\ outcome = "ValueError"
        /\ dirs = dirs0
        /\ AssetRequests = <<>>

\* C7 as stated: for a full link with one parameter, when no request
\* failed, download_audiobook returns, the asset requests are those of the
\* files missing at the start, in the order cover, cue, audio, and the
\* three files exist.
C7_Original ==
    (/\ DownloadEnded
     /\ link.path = FullPath
     /\ Len(link.query) = 1
     /\ \A i \in DOMAIN requests : requests[i].ok
     /\ outcome # "ConnectionError") =>
        /\ outcome = "returned"
        /\ [i \in 1..Len(AssetRequests) |-> AssetRequests[i].ext]
              = SelectSeq(Exts, LAMBDA e : fs0[<<cur, e>>] = Absent)
        /\ \A e \in ExtSet : fs[<<cur, e>>] # Absent

\* C8 as stated: after a detail-page or asset request got a non-success
\* status, nothing more happens in the run: that request is the last one,
\* no file is written after a failed detail request or while the failed
\* asset request is the last, main does not go on to the next audiobook
\* and does not return 0.
C8_Original ==
    \A i \in DOMAIN requests :
        (requests[i].kind \in {"detail", "asset"} /\ ~requests[i].ok) =>
            /\ i = Len(requests)
            /\ pc \notin {"asset_write", "loop", "idle"}
            /\ requests[i].kind = "detail" => fs = fs0
            /\ exit # "0"

\* C9: a step that ends the run leaves every file as it is, and a truncated
\* file that is not the one being written keeps its content, is not
\* written to and gets no request, in this run and in every later one.
C9_TruncatedStays ==
    [][/\ pc' = "exited" => fs' = fs
       /\ \A f \in Files :
            (Truncated(f) /\ ~BeingWritten(f)) =>
                /\ fs'[f] = fs[f]
                /\ ~(pc' = "asset_write" /\ f = <<cur', Exts[asset']>>)
                /\ ReqsFor(requests', f) <= ReqsFor(requests, f)]_vars

\* C9 witness: a run was interrupted while it wrote a file that did not
\* exist when the call started; the file is left truncated.
C9_Witness ==
    /\ pc = "exited"
    /\ exit = "killed"
    /\ \E f \in Files : fs0[f] = Absent /\ Truncated(f)

====
